---- MODULE Spec2Model ----
(***************************************************************************)
(* A model of the PDF OCR extraction pipeline: the Provider base class     *)
(* (Providers/base.py), the Mistral and Reducto adapters, and the          *)
(* stand-alone recognizer of main.py.                                       *)
(*                                                                         *)
(* Strings are sequences of one-character strings, so that formatting,     *)
(* sanitising and pattern matching are computed character by character.    *)
(* A Python dict is a sequence of <<key, value>> pairs with distinct keys   *)
(* (insertion order).  A directory is a function from file names to file   *)
(* contents.  A Python object is a record with a cls field.                 *)
(***************************************************************************)
EXTENDS Naturals, Integers, Sequences, FiniteSets, TLC

VARIABLES
    \* Provider.process_folder (Providers/base.py)
    input_kind,   \* what folder_path is: "missing", "file" or "dir"
    entries,      \* the folder's immediate children: name -> kind
    provider,     \* the adapter class: "MistralOCR" or "ReductoOCR"
    pc,           \* position inside process_folder
    pdf_files,    \* list(folder_path.glob("*.pdf"))
    idx,          \* 1-based position of the for loop in pdf_files
    result,       \* the value parse_pdf returned for the current file
    outdir,       \* the output tree: root, provider directory, document dirs
    log,          \* history of the calls process_folder has made
    \* MistralOCR._parse_pdf_implementation on one backend response
    ocr_response, \* ocr_response['pages']
    recognized,   \* the RecognizedDocument returned
    mpc,          \* "ready" or "done"
    \* Provider._save_pdf_data on one document directory
    doc_dir,      \* the directory's files: name -> content
    persisted,    \* the documents handed to _save_pdf_data so far
    save_exc,     \* the exception the last _save_pdf_data raised, or "none"
    \* main.py: MistralOCRProvider._process_image_response and save_images
    api_result,   \* result['images'] of the API response
    extracted,    \* the dict _process_image_response returned
    img_dir,      \* the directory save_images writes into
    saved_paths,  \* the dict save_images returned
    xpc           \* "ready", "processed" or "saved"

folderVars  == <<input_kind, entries, provider, pc, pdf_files, idx, result, outdir, log>>
mistralVars == <<ocr_response, recognized, mpc>>
saveVars    == <<doc_dir, persisted, save_exc>>
mainVars    == <<api_result, extracted, img_dir, saved_paths, xpc>>
vars        == <<folderVars, mistralVars, saveVars, mainVars>>

----------------------------------------------------------------------------
(* Bounds *)

MaxFiles   == 3   \* *.pdf candidate names in the input folder
MaxPages   == 2   \* pages of a backend response
MaxImages  == 2   \* images per page, and images of a main.py response
MaxIndex   == 1   \* largest page index a backend reports
MaxSaves   == 2   \* _save_pdf_data calls on one document directory

----------------------------------------------------------------------------
(* Python strings and dicts *)

DigitChar == <<"0", "1", "2", "3", "4", "5", "6", "7", "8", "9">>

RECURSIVE PyStrNat(_)
PyStrNat(n) ==
    IF n < 10 THEN <<DigitChar[n + 1]>>
    ELSE PyStrNat(n \div 10) \o <<DigitChar[(n % 10) + 1]>>

\* str(n) as an f-string formats an int
PyStr(n) == IF n < 0 THEN <<"-">> \o PyStrNat(0 - n) ELSE PyStrNat(n)

EndsWith(s, suffix) ==
    /\ Len(s) >= Len(suffix)
    /\ SubSeq(s, Len(s) - Len(suffix) + 1, Len(s)) = suffix

EmptyDict == << >>

DictKeys(d) == {d[i][1] : i \in DOMAIN d}

DictHas(d, k) == k \in DictKeys(d)

DictGet(d, k) == d[CHOOSE i \in DOMAIN d : d[i][1] = k][2]

\* d[k] = v
DictSet(d, k, v) ==
    IF DictHas(d, k)
    THEN [i \in DOMAIN d |-> IF d[i][1] = k THEN <<k, v>> ELSE d[i]]
    ELSE Append(d, <<k, v>>)

DictLen(d) == Len(d)

\* all sequences over S of length at most n
SeqsUpTo(S, n) == UNION {[1..k -> S] : k \in 0..n}

\* all sequences without repetition over subsets of S
RECURSIVE Orderings(_)
Orderings(S) ==
    IF S = {} THEN {<< >>}
    ELSE UNION {{<<x>> \o t : t \in Orderings(S \ {x})} : x \in S}

----------------------------------------------------------------------------
(* File names and file contents *)

DocumentTxt  == <<"d","o","c","u","m","e","n","t",".","t","x","t">>
MetadataJson == <<"m","e","t","a","d","a","t","a",".","j","s","o","n">>
PdfSuffix    == <<".","p","d","f">>
Letter       == <<"a", "b", "c", "d", "e", "f">>

EmptyDir == << >>

\* open(dir / name, "w").write(content): create or overwrite
WriteFile(dir, name, content) ==
    [n \in (DOMAIN dir) \cup {name} |-> IF n = name THEN content ELSE dir[n]]

HasSeparator(name) == \E i \in DOMAIN name : name[i] = "/"

\* a path dir / name that open() can create inside a directory that has no
\* subdirectories: a single component that is not "", "." or ".."
IsPlainFileName(name) ==
    /\ ~HasSeparator(name)
    /\ name \notin {<< >>, <<".">>, <<".", ".">>}

TextFile(t)   == <<"text", t>>
BytesFile(b)  == <<"bytes", b>>
JsonFile(j)   == <<"json", j>>

----------------------------------------------------------------------------
(* json.dump / json.load on the values metadata may hold *)

\* Python values: <<"int", n>>, <<"str", s>>, <<"list", xs>>, <<"tuple", xs>>
\* with xs a sequence of Python values.  JSON values: <<"number", n>>,
\* <<"string", s>>, <<"array", xs>>.
RECURSIVE JsonDump(_)
JsonDump(v) ==
    CASE v[1] = "int"   -> <<"number", v[2]>>
      [] v[1] = "str"   -> <<"string", v[2]>>
      [] v[1] = "list"  -> <<"array", [i \in DOMAIN v[2] |-> JsonDump(v[2][i])]>>
      [] v[1] = "tuple" -> <<"array", [i \in DOMAIN v[2] |-> JsonDump(v[2][i])]>>

RECURSIVE JsonLoad(_)
JsonLoad(j) ==
    CASE j[1] = "number" -> <<"int", j[2]>>
      [] j[1] = "string" -> <<"str", j[2]>>
      [] j[1] = "array"  -> <<"list", [i \in DOMAIN j[2] |-> JsonLoad(j[2][i])]>>

\* json.dump(metadata, f): a dict with str keys becomes a JSON object
JsonDumpDict(d) == <<"object", [i \in DOMAIN d |-> <<d[i][1], JsonDump(d[i][2])>>]>>

\* json.load(f) of a JSON object
JsonLoadDict(j) == [i \in DOMAIN j[2] |-> <<j[2][i][1], JsonLoad(j[2][i][2])>>]

----------------------------------------------------------------------------
(* RecognizedDocument and the objects parse_pdf may return *)

NoneObj == [cls |-> "NoneType"]

\* RecognizedDocument(text=..., image_bytes_by_name=..., metadata=...)
RecognizedDocument(text, images, metadata) ==
    [cls |-> "RecognizedDocument", text |-> text,
     image_bytes_by_name |-> images, metadata |-> metadata]

\* getattr succeeds
HasAttr(obj, attr) == attr \in (DOMAIN obj) \ {"cls", "items"}

\* bool(obj): a dataclass instance without __bool__ or __len__ is true, a
\* dict is true when it is not empty
Truthy(obj) ==
    CASE obj.cls = "RecognizedDocument" -> TRUE
      [] obj.cls = "dict"               -> obj.items # << >>
      [] OTHER                          -> FALSE

----------------------------------------------------------------------------
(* MistralOCR._parse_pdf_implementation *)

DataUriPrefix == "data:image/jpeg;base64,"

\* base64.b64decode, one four-character group at a time
B64Group(g) ==
    CASE g = "QQ==" -> <<"A">>
      [] g = "Qg==" -> <<"B">>
      [] g = "QUI=" -> <<"A", "B">>

RECURSIVE B64Decode(_)
B64Decode(data) ==
    IF data = << >> THEN << >> ELSE B64Group(Head(data)) \o B64Decode(Tail(data))

\* base64_data.split(",", 1)[1] when the data starts with the data-URI prefix
StripDataUri(data) ==
    IF data # << >> /\ Head(data) = DataUriPrefix THEN Tail(data) ELSE data

Page_  == <<"p","a","g","e","_">>
Im_    == <<"_","i","m","_">>
Jpeg   == <<".","j","p","e","g">>

\* mutant: both numbers left 0-based
MistralImageNameZeroBased(page_num, i) ==
    Page_ \o PyStr(page_num) \o Im_ \o PyStr(i) \o Jpeg

\* f"page_{page_num + 1}_im_{i + 1}.jpeg", i the 0-based enumerate position
MistralImageName(page_num, i) ==
    Page_ \o PyStr(page_num + 1) \o Im_ \o PyStr(i + 1) \o Jpeg

\* the inner loop: for i, img in enumerate(page.get('images'))
RECURSIVE MistralPageImages(_, _, _, _)
MistralPageImages(imgs, i, page_num, images) ==
    IF imgs = << >> THEN images
    ELSE LET image_bytes == B64Decode(StripDataUri(Head(imgs).image_base64))
             image_name  == MistralImageName(page_num, i)
         IN  MistralPageImages(Tail(imgs), i + 1, page_num,
                               DictSet(images, image_name, image_bytes))

\* the outer loop: for page in ocr_response['pages'], in array order
RECURSIVE MistralPages(_, _, _)
MistralPages(pages, text, images) ==
    IF pages = << >> THEN RecognizedDocument(text, images, EmptyDict)
    ELSE LET page == Head(pages)
         IN  MistralPages(Tail(pages), text \o page.markdown,
                          MistralPageImages(page.images, 0, page.index, images))

MistralParse(pages) == MistralPages(pages, << >>, EmptyDict)

\* the responses the backend may give
ImageSet ==
    { [image_base64 |-> <<DataUriPrefix, "QQ==">>],
      [image_base64 |-> <<"Qg==">>] }

MarkdownSet == { <<"x">>, <<"y">> }

PageSet ==
    [index : 0..MaxIndex, markdown : MarkdownSet, images : SeqsUpTo(ImageSet, MaxImages)]

Responses == SeqsUpTo(PageSet, MaxPages)

----------------------------------------------------------------------------
(* ReductoOCR._parse_pdf_implementation *)

ResultKey == <<"r","e","s","u","l","t">>

\* result.model_dump(): a plain dict, not a RecognizedDocument
ReductoParse(chunks) == [cls |-> "dict", items |-> << <<ResultKey, chunks>> >>]

ReductoResponses == SeqsUpTo(MarkdownSet, 1)

----------------------------------------------------------------------------
(* Provider: validate_pdf_path, _save_pdf_data, save_results *)

\* validate_pdf_path: the exception it raises, or "none"
ValidatePdfPath(kind) ==
    CASE kind \in {"absent", "link"} -> "FileNotFoundError"
      [] kind = "dir"                -> "ValueError"
      [] OTHER                       -> "none"

\* mutant: the loop is left after the first image
WriteImagesFirstOnly(items, dir) ==
    IF items = << >> \/ ~IsPlainFileName(Head(items)[1])
    THEN [dir |-> dir, exc |-> IF items = << >> THEN "none" ELSE "OSError"]
    ELSE [dir |-> WriteFile(dir, Head(items)[1], BytesFile(Head(items)[2])), exc |-> "none"]

\* for name, img_bytes in result.image_bytes_by_name.items(): open(...).write(...)
RECURSIVE WriteImages(_, _)
WriteImages(items, dir) ==
    IF items = << >> THEN [dir |-> dir, exc |-> "none"]
    ELSE LET name == Head(items)[1]
         IN  IF ~IsPlainFileName(name)
             THEN [dir |-> dir, exc |-> "OSError"]
             ELSE WriteImages(Tail(items), WriteFile(dir, name, BytesFile(Head(items)[2])))

\* _save_pdf_data(result, doc_dir): the directory afterwards, and the
\* exception raised ("none" when it returns).  open(..., "w") creates or
\* truncates document.txt before result.text is evaluated.
SavePdfData(res, dir) ==
    LET opened == WriteFile(dir, DocumentTxt, TextFile(<< >>))
    IN  IF ~HasAttr(res, "text")
        THEN [dir |-> opened, exc |-> "AttributeError"]
        ELSE LET imgs == WriteImages(res.image_bytes_by_name,
                                     WriteFile(dir, DocumentTxt, TextFile(res.text)))
             IN  IF imgs.exc # "none" THEN imgs
                 ELSE [dir |-> WriteFile(imgs.dir, MetadataJson,
                                         JsonFile(JsonDumpDict(res.metadata))),
                       exc |-> "none"]

\* Path.stem: the name without its last suffix
RECURSIVE LastDot(_)
LastDot(name) ==
    IF name = << >> THEN 0
    ELSE IF name[Len(name)] = "." THEN Len(name)
    ELSE LastDot(SubSeq(name, 1, Len(name) - 1))

Stem(name) ==
    IF LastDot(name) > 1 /\ LastDot(name) < Len(name)
    THEN SubSeq(name, 1, LastDot(name) - 1)
    ELSE name

\* save_results(result, pdf_name, output_dir): both mkdir(exist_ok=True),
\* then _save_pdf_data into the document directory
SaveResultsOp(res, pdf_name, out) ==
    LET old   == IF pdf_name \in DOMAIN out.docs THEN out.docs[pdf_name] ELSE EmptyDir
        saved == SavePdfData(res, old)
    IN  [outdir |-> [root |-> out.root, provider_dir |-> TRUE,
                     docs |-> WriteFile(out.docs, pdf_name, saved.dir)],
         exc |-> saved.exc]

----------------------------------------------------------------------------
(* Provider.process_folder *)

PdfName(i) == <<Letter[i]>> \o PdfSuffix
NotesTxt   == <<"n", ".", "t", "x", "t">>

\* the names an input folder may hold; a *.pdf name may be a regular file,
\* a directory or a dangling symbolic link
EntryKinds(name) ==
    IF name = NotesTxt THEN {"absent", "file"} ELSE {"absent", "file", "dir", "link"}

EntryNames == {PdfName(i) : i \in 1..MaxFiles} \cup {NotesTxt}

Folders == {e \in [EntryNames -> {"absent", "file", "dir", "link"}] :
               \A n \in EntryNames : e[n] \in EntryKinds(n)}

NoEntries == [n \in EntryNames |-> "absent"]

\* mutant: the pattern "*.*"
FnMatchAnySuffix(name) == \E i \in DOMAIN name : name[i] = "."

\* fnmatch(name, "*.pdf")
FnMatchPdf(name) == EndsWith(name, PdfSuffix)

\* folder_path.glob("*.pdf"): every child of any kind whose name matches
GlobPdf(e) == {n \in DOMAIN e : e[n] # "absent" /\ FnMatchPdf(n)}

\* mutant: the is_dir() test is missing
FolderInvalidExistsOnly(kind) == kind = "missing"

\* not folder_path.exists() or not folder_path.is_dir()
FolderInvalid(kind) == kind = "missing" \/ kind # "dir"

Event(op, file, outcome) == [op |-> op, file |-> file, outcome |-> outcome]

\* the responses a backend gives inside a batch
BatchPageSet ==
    [index : {0}, markdown : {<<"x">>}, images : SeqsUpTo(ImageSet, 1)]

\* what awaiting _parse_pdf_implementation may produce: an exception of
\* the upload or the OCR call, or the adapter's return value
ParseOutcomes(cls) ==
    {[exc |-> "Exception", value |-> NoneObj]} \cup
    IF cls = "MistralOCR"
    THEN {[exc |-> "none", value |-> MistralParse(r)] : r \in SeqsUpTo(BatchPageSet, 1)}
    ELSE {[exc |-> "none", value |-> ReductoParse(r)] : r \in ReductoResponses}

FolderInit ==
    /\ input_kind \in {"missing", "file", "dir"}
    /\ entries \in IF input_kind = "dir" THEN Folders ELSE {NoEntries}
    /\ provider \in {"MistralOCR", "ReductoOCR"}
    /\ pc = "start"
    /\ pdf_files = << >>
    /\ idx = 0
    /\ result = NoneObj
    /\ outdir \in [root : BOOLEAN, provider_dir : {FALSE}, docs : {EmptyDir}]
    /\ log = << >>

\* lines 81-85: the folder check
ValidateFolder ==
    /\ pc = "start"
    /\ pc' = IF FolderInvalid(input_kind) THEN "raised" ELSE "mkdir"
    /\ UNCHANGED <<input_kind, entries, provider, pdf_files, idx, result, outdir, log, mistralVars, saveVars, mainVars>>

\* line 87: output_dir.mkdir(parents=True, exist_ok=True)
MkOutputDir ==
    /\ pc = "mkdir"
    /\ outdir' = [outdir EXCEPT !.root = TRUE]
    /\ log' = Append(log, Event("mkdir", << >>, "ok"))
    /\ pc' = "glob"
    /\ UNCHANGED <<input_kind, entries, provider, pdf_files, idx, result, mistralVars, saveVars, mainVars>>

\* lines 90-95: enumerate, in whatever order the directory scan yields
Enumerate ==
    /\ pc = "glob"
    /\ \E order \in Orderings(GlobPdf(entries)) :
         /\ pdf_files' = order
         /\ pc' = IF order = << >> THEN "returned" ELSE "parse"
         /\ idx' = IF order = << >> THEN idx ELSE 1
    /\ log' = Append(log, Event("glob", << >>, "ok"))
    /\ UNCHANGED <<input_kind, entries, provider, result, outdir, mistralVars, saveVars, mainVars>>

\* the loop's next position after the body has finished for pdf_files[idx]
Advance ==
    /\ pc' = IF idx = Len(pdf_files) THEN "returned" ELSE "parse"
    /\ idx' = IF idx = Len(pdf_files) THEN idx ELSE idx + 1

\* mutant: save_results is started but not awaited, so the next
\* parse_pdf is called while the previous file is still being saved
StartParseNoAwait ==
    /\ \/ /\ pc = "parse"
          /\ log' = Append(log, Event("parse_pdf", pdf_files[idx], "called"))
          /\ idx' = idx
       \/ /\ pc = "save"
          /\ idx < Len(pdf_files)
          /\ log' = Append(log, Event("parse_pdf", pdf_files[idx + 1], "called"))
          /\ idx' = idx + 1
    /\ pc' = "parsing"
    /\ UNCHANGED <<input_kind, entries, provider, pdf_files, result, outdir, mistralVars, saveVars, mainVars>>

\* lines 99-100: the call of parse_pdf(pdf_file), up to its await
StartParse ==
    /\ pc = "parse"
    /\ log' = Append(log, Event("parse_pdf", pdf_files[idx], "called"))
    /\ pc' = "parsing"
    /\ UNCHANGED <<input_kind, entries, provider, pdf_files, idx, result, outdir, mistralVars, saveVars, mainVars>>

\* lines 51-55 and 100, 106-108: parse_pdf returns or raises; the except
\* clause logs and re-raises, which ends process_folder
FinishParse ==
    /\ pc = "parsing"
    /\ LET pdf_file == pdf_files[idx]
           invalid  == ValidatePdfPath(entries[pdf_file])
       IN  \E o \in ParseOutcomes(provider) :
             LET exc == IF invalid # "none" THEN invalid ELSE o.exc
             IN  /\ result' = IF exc = "none" THEN o.value ELSE NoneObj
                 /\ pc' = IF exc = "none" THEN "save" ELSE "raised"
                 /\ log' = Append(log, Event("parse_pdf", pdf_file,
                                             IF exc = "none" THEN "returned" ELSE "raised"))
    /\ UNCHANGED <<input_kind, entries, provider, pdf_files, idx, outdir, mistralVars, saveVars, mainVars>>

\* lines 101-108: save_results when the result is true, else the
\* "Failed to process" branch; an exception is logged and re-raised
SaveResults ==
    /\ pc = "save"
    /\ LET pdf_file == pdf_files[idx]
           saved    == SaveResultsOp(result, Stem(pdf_file), outdir)
       IN  IF ~Truthy(result)
           THEN /\ Advance
                /\ log' = Append(log, Event("failed", pdf_file, "logged"))
                /\ UNCHANGED outdir
           ELSE /\ outdir' = saved.outdir
                /\ IF saved.exc = "none"
                   THEN /\ Advance
                        /\ log' = Append(log, Event("save_results", pdf_file, "returned"))
                   ELSE /\ pc' = "raised"
                        /\ idx' = idx
                        /\ log' = Append(log, Event("save_results", pdf_file, "raised"))
    /\ result' = NoneObj
    /\ UNCHANGED <<input_kind, entries, provider, pdf_files, mistralVars, saveVars, mainVars>>

----------------------------------------------------------------------------
(* MistralOCR._parse_pdf_implementation applied to one backend response *)

MistralInit ==
    /\ ocr_response \in Responses
    /\ recognized = NoneObj
    /\ mpc = "ready"

\* lines 47-65 of mistral_provider.py: walk the pages, return the document
MistralParsePdf ==
    /\ mpc = "ready"
    /\ recognized' = MistralParse(ocr_response)
    /\ mpc' = "done"
    /\ UNCHANGED <<ocr_response, folderVars, saveVars, mainVars>>

----------------------------------------------------------------------------
(* Provider._save_pdf_data applied to one document directory *)

KeyK == <<"k">>

Metadatas ==
    { EmptyDict,
      << <<KeyK, <<"int", 1>>>> >>,
      << <<KeyK, <<"list", << <<"str", <<"v">>>> >>>>>> >>,
      << <<KeyK, <<"tuple", << <<"int", 1>> >>>>>> >> }

SubdirName == <<"a", "/", "b">>

\* names an images dict may use as keys
SaveImageNames ==
    {MistralImageName(0, 0), MistralImageName(1, 0), DocumentTxt, MetadataJson, SubdirName}

ByteStrings == { <<"A">>, <<"B">> }

\* dicts with at most n items, keys from K, values from V
Dicts(K, V, n) ==
    {d \in SeqsUpTo(K \X V, n) : \A i, j \in DOMAIN d : i # j => d[i][1] # d[j][1]}

Documents ==
    {RecognizedDocument(t, im, md) :
        t \in MarkdownSet, im \in Dicts(SaveImageNames, ByteStrings, MaxImages),
        md \in Metadatas}

SaveInit ==
    /\ doc_dir = EmptyDir
    /\ persisted = << >>
    /\ save_exc = "none"

\* one call of _save_pdf_data(result, doc_dir) on the same directory
SavePdfDataCall ==
    /\ Len(persisted) < MaxSaves
    /\ \E doc \in Documents :
         LET saved == SavePdfData(doc, doc_dir)
         IN  /\ doc_dir' = saved.dir
             /\ save_exc' = saved.exc
             /\ persisted' = Append(persisted, doc)
    /\ UNCHANGED <<folderVars, mistralVars, mainVars>>

----------------------------------------------------------------------------
(* main.py: MistralOCRProvider._process_image_response, save_images *)

AlnumChars ==
    {"a", "b", "c", "d", "e", "f", "g", "h", "i", "j", "k", "l", "m", "n", "o",
     "p", "q", "r", "s", "t", "u", "v", "w", "x", "y", "z",
     "0", "1", "2", "3", "4", "5", "6", "7", "8", "9"}

\* c if c.isalnum() or c in '._- ' else '_'
SafeChar(c) == IF c \in AlnumChars \/ c \in {".", "_", "-", " "} THEN c ELSE "_"

\* ''.join(... for c in image_name)
SafeName(name) == [i \in DOMAIN name |-> SafeChar(name[i])]

Image_ == <<"i","m","a","g","e","_">>
Png    == <<".","p","n","g">>

\* f"image_{i}.png"
DefaultImageName(i) == Image_ \o PyStr(i) \o Png

\* img_data.get('name', f"image_{i}.png")
ImageKey(img_data, i) ==
    IF "name" \in DOMAIN img_data THEN img_data.name ELSE DefaultImageName(i)

\* the loop of _process_image_response: for i, img_data in enumerate(...)
RECURSIVE ProcessImages(_, _, _)
ProcessImages(imgs, i, images) ==
    IF imgs = << >> THEN images
    ELSE LET img_data == Head(imgs)
         IN  ProcessImages(Tail(imgs), i + 1,
                 IF "base64" \in DOMAIN img_data
                 THEN DictSet(images, ImageKey(img_data, i), B64Decode(img_data.base64))
                 ELSE images)

\* _process_image_response(result)
ProcessImageResponse(res) ==
    IF "images" \in DOMAIN res THEN ProcessImages(res.images, 0, EmptyDict) ELSE EmptyDict

\* the loop of save_images: write each image under its sanitised name
RECURSIVE SaveImagesLoop(_, _, _)
SaveImagesLoop(items, dir, paths) ==
    IF items = << >> THEN [dir |-> dir, paths |-> paths, exc |-> "none"]
    ELSE LET image_name == Head(items)[1]
             safe_name  == SafeName(image_name)
         IN  IF ~IsPlainFileName(safe_name)
             THEN [dir |-> dir, paths |-> paths, exc |-> "OSError"]
             ELSE SaveImagesLoop(Tail(items),
                                 WriteFile(dir, safe_name, BytesFile(Head(items)[2])),
                                 DictSet(paths, image_name, safe_name))

RawNames == { <<"a", "/", "b">>, <<"a", "_", "b">>, DefaultImageName(1) }

Base64Strings == { <<"QQ==">>, <<"Qg==">> }

ImgDatas ==
    [base64 : Base64Strings] \cup [base64 : Base64Strings, name : RawNames]
        \cup [name : RawNames]

ApiResults ==
    {[cls |-> "dict"]} \cup {[cls |-> "dict", images |-> l] : l \in SeqsUpTo(ImgDatas, MaxImages)}

MainInit ==
    /\ api_result \in ApiResults
    /\ extracted = EmptyDict
    /\ img_dir = EmptyDir
    /\ saved_paths = EmptyDict
    /\ xpc = "ready"

\* process_document, line 97: extracted_images = self._process_image_response(result)
ProcessDocument ==
    /\ xpc = "ready"
    /\ extracted' = ProcessImageResponse(api_result)
    /\ xpc' = "processed"
    /\ UNCHANGED <<api_result, img_dir, saved_paths, folderVars, mistralVars, saveVars>>

\* RecognizedDocument.save_images(output_dir) into a fresh directory
SaveImages ==
    /\ xpc = "processed"
    /\ LET saved == SaveImagesLoop(extracted, img_dir, EmptyDict)
       IN  /\ img_dir' = saved.dir
           /\ saved_paths' = saved.paths
           /\ xpc' = IF saved.exc = "none" THEN "saved" ELSE "raised"
    /\ UNCHANGED <<api_result, extracted, folderVars, mistralVars, saveVars>>

----------------------------------------------------------------------------
(* Specifications *)

MistralIdle == ocr_response = << >> /\ recognized = NoneObj /\ mpc = "idle"
SaveIdle    == doc_dir = EmptyDir /\ persisted = << >> /\ save_exc = "none"
MainIdle    == /\ api_result = << >> /\ extracted = EmptyDict /\ img_dir = EmptyDir
               /\ saved_paths = EmptyDict /\ xpc = "idle"
FolderIdle  == /\ input_kind = "missing" /\ entries = NoEntries /\ provider = "MistralOCR"
               /\ pc = "idle" /\ pdf_files = << >> /\ idx = 0 /\ result = NoneObj
               /\ outdir = [root |-> FALSE, provider_dir |-> FALSE, docs |-> EmptyDir]
               /\ log = << >>

Init == FolderInit /\ MistralIdle /\ SaveIdle /\ MainIdle

Next ==
    \/ ValidateFolder
    \/ MkOutputDir
    \/ Enumerate
    \/ StartParse
    \/ FinishParse
    \/ SaveResults

\* process_folder on every folder, with either adapter
Spec == Init /\ [][Next]_vars

\* MistralOCR._parse_pdf_implementation on every bounded backend response
InitMistral == FolderIdle /\ MistralInit /\ SaveIdle /\ MainIdle

NextMistral == MistralParsePdf

SpecMistral == InitMistral /\ [][NextMistral]_vars

\* _save_pdf_data called up to MaxSaves times on one document directory
InitSave == FolderIdle /\ MistralIdle /\ SaveInit /\ MainIdle

NextSave == SavePdfDataCall

SpecSave == InitSave /\ [][NextSave]_vars

\* the first _save_pdf_data into a fresh directory
SaveFresh == persisted = << >> /\ SavePdfDataCall

\* _save_pdf_data called once on a fresh document directory
SpecFresh == InitSave /\ [][SaveFresh]_vars

InitMain == FolderIdle /\ MistralIdle /\ SaveIdle /\ MainInit

NextMain ==
    \/ ProcessDocument
    \/ SaveImages

\* main.py: the image part of process_document, then save_images
SpecMain == InitMain /\ [][NextMain]_vars

----------------------------------------------------------------------------
(* Claims about process_folder (Spec) *)

IsCall(e)   == e.op = "parse_pdf" /\ e.outcome = "called"
CalledFiles == LET calls == SelectSeq(log, IsCall)
               IN  [i \in DOMAIN calls |-> calls[i].file]
Finished    == pc \in {"returned", "raised"}
OnlyRegularPdfs ==
    \A n \in DOMAIN entries : EndsWith(n, PdfSuffix) => entries[n] \in {"absent", "file"}

\* C1: per-file isolation.  For a folder whose *.pdf children are regular
\* files, when process_folder has finished it has returned without raising,
\* parse_pdf has been called for every enumerated file, and every file whose
\* parse_pdf returned has had save_results called for it.
C1_PerFileIsolation ==
    (input_kind = "dir" /\ OnlyRegularPdfs /\ Finished) =>
        /\ pc = "returned"
        /\ CalledFiles = pdf_files
        /\ \A i \in DOMAIN log :
             (log[i].op = "parse_pdf" /\ log[i].outcome = "returned") =>
                 \E j \in DOMAIN log : j > i /\ log[j].op = "save_results"
                                             /\ log[j].file = log[i].file

NoPdfChild == \A n \in DOMAIN entries : entries[n] # "absent" => ~EndsWith(n, PdfSuffix)

\* C5: an existing folder without any child named *.pdf.  process_folder
\* never raises, has returned as soon as the enumeration is done, never
\* calls parse_pdf or save_results, and creates nothing below the output
\* root (no provider directory, no document directory, no document file).
C5_EmptyFolderReturns ==
    (input_kind = "dir" /\ NoPdfChild) =>
        /\ pc \in {"start", "mkdir", "glob", "returned"}
        /\ (\E i \in DOMAIN log : log[i].op = "glob") => pc = "returned"
        /\ \A i \in DOMAIN log : log[i].op \in {"mkdir", "glob"}
        /\ result = NoneObj
        /\ ~outdir.provider_dir
        /\ outdir.docs = EmptyDir

\* a folder holding only a non-PDF file has been processed to the end
C5_Witness ==
    /\ input_kind = "dir" /\ NoPdfChild /\ entries[NotesTxt] = "file"
    /\ pc = "returned" /\ outdir.root

\* C6: a folder path that is missing or not a directory.  process_folder
\* raises at once: it is at its start or has raised, it has made no call
\* (no mkdir of the output root, no enumeration, no parse_pdf, no
\* save_results) and the output tree holds nothing.
C6_InvalidFolderFailsFast ==
    (input_kind # "dir") =>
        /\ pc \in {"start", "raised"}
        /\ log = << >>
        /\ pdf_files = << >>
        /\ result = NoneObj
        /\ ~outdir.provider_dir
        /\ outdir.docs = EmptyDir

\* the folder path names a regular file and process_folder has raised
C6_Witness == input_kind = "file" /\ pc = "raised" /\ ~outdir.root

\* the files whose processing has begun and is not over
InFlight ==
    {f \in {pdf_files[i] : i \in DOMAIN pdf_files} :
        /\ \E i \in DOMAIN log : IsCall(log[i]) /\ log[i].file = f
        /\ ~\E i \in DOMAIN log :
              /\ log[i].file = f
              /\ \/ log[i].op \in {"save_results", "failed"}
                 \/ log[i].op = "parse_pdf" /\ log[i].outcome = "raised"}

\* C8: strictly sequential processing in enumeration order.  The files
\* parse_pdf has been called for are a prefix of the enumeration, each
\* called once; between two calls of parse_pdf the earlier file's
\* parse_pdf has returned and its save_results has returned after that; at
\* most one file is in flight, and a result is held only while saving.
C8_StrictlySequential ==
    /\ Len(CalledFiles) <= Len(pdf_files)
    /\ CalledFiles = SubSeq(pdf_files, 1, Len(CalledFiles))
    /\ \A i, j \in DOMAIN CalledFiles : i # j => CalledFiles[i] # CalledFiles[j]
    /\ \A i, j \in DOMAIN log :
         (i < j /\ IsCall(log[i]) /\ IsCall(log[j])) =>
             \E k \in (i + 1)..(j - 1) :
                /\ log[k] = Event("parse_pdf", log[i].file, "returned")
                /\ \E m \in (k + 1)..(j - 1) :
                      log[m] = Event("save_results", log[i].file, "returned")
    /\ Cardinality(InFlight) <= 1
    /\ (result # NoneObj) => pc = "save"

\* a batch of three files has been processed to the end
C8_Witness == pc = "returned" /\ Len(pdf_files) = 3 /\ Len(CalledFiles) = 3

\* C7: every adapter returns a Canonical Document.  Whenever parse_pdf has
\* returned a value to process_folder, the value has the attributes text,
\* image_bytes_by_name and metadata, its images and metadata are
\* containers, and save_results never raises on it.
C7_AdaptersReturnCanonicalDocument ==
    /\ (pc = "save") =>
          /\ HasAttr(result, "text")
          /\ HasAttr(result, "image_bytes_by_name")
          /\ HasAttr(result, "metadata")
    /\ \A i \in DOMAIN log :
          ~(log[i].op = "save_results" /\ log[i].outcome = "raised")

----------------------------------------------------------------------------
(* Claims about MistralOCR._parse_pdf_implementation (SpecMistral) *)

\* insertion of a page behind every page whose index is not larger
RECURSIVE InsertByIndex(_, _)
InsertByIndex(sorted, p) ==
    IF sorted = << >> THEN <<p>>
    ELSE IF Head(sorted).index <= p.index
         THEN <<Head(sorted)>> \o InsertByIndex(Tail(sorted), p)
         ELSE <<p>> \o sorted

RECURSIVE SortByIndex(_)
SortByIndex(pages) ==
    IF pages = << >> THEN << >>
    ELSE InsertByIndex(SortByIndex(SubSeq(pages, 1, Len(pages) - 1)), pages[Len(pages)])

RECURSIVE ConcatMarkdown(_)
ConcatMarkdown(pages) ==
    IF pages = << >> THEN << >> ELSE Head(pages).markdown \o ConcatMarkdown(Tail(pages))

\* C2: the text of the returned document is the concatenation of the page
\* texts in ascending order of the reported page index, whatever the order
\* of the pages in the response array.
C2_TextInPageIndexOrder ==
    (mpc = "done") => recognized.text = ConcatMarkdown(SortByIndex(ocr_response))

RECURSIVE TotalImages(_)
TotalImages(pages) ==
    IF pages = << >> THEN 0 ELSE Len(Head(pages).images) + TotalImages(Tail(pages))

\* page_<p>_im_<i>.jpeg with p the reported index plus 1, i the 1-based position
ClaimedImageName(page, i) == Page_ \o PyStr(page.index + 1) \o Im_ \o PyStr(i) \o Jpeg

ClaimedImageNames(pages) ==
    UNION {{ClaimedImageName(pages[n], i) : i \in DOMAIN pages[n].images} : n \in DOMAIN pages}

DistinctIndices(pages) ==
    \A m, n \in DOMAIN pages : m # n => pages[m].index # pages[n].index

ImagesKept ==
    LET images == recognized.image_bytes_by_name
    IN  /\ DictLen(images) = TotalImages(ocr_response)
        /\ Cardinality(DictKeys(images)) = TotalImages(ocr_response)
        /\ DictKeys(images) = ClaimedImageNames(ocr_response)

\* C3 as stated: a response with K inline images gives exactly K entries
\* under distinct keys page_<p>_im_<i>.jpeg, also when two pages report
\* the same index.
C3_EveryImageKept == (mpc = "done") => ImagesKept

\* C3 amended: when the pages report pairwise distinct indices, a response
\* with K inline images gives exactly K entries, under the distinct keys
\* page_<p>_im_<i>.jpeg, each holding the decoded bytes of its image.
C3_EveryImageKeptDistinctIndices ==
    (mpc = "done" /\ DistinctIndices(ocr_response)) =>
        /\ ImagesKept
        /\ \A n \in DOMAIN ocr_response : \A i \in DOMAIN ocr_response[n].images :
              LET data == ocr_response[n].images[i].image_base64
                  b64  == IF data # << >> /\ Head(data) = DataUriPrefix THEN Tail(data) ELSE data
              IN  DictGet(recognized.image_bytes_by_name,
                          ClaimedImageName(ocr_response[n], i)) = B64Decode(b64)

\* two pages with distinct indices, out of order, two images on each
C3_Witness ==
    /\ mpc = "done" /\ Len(ocr_response) = 2
    /\ ocr_response[1].index = 1 /\ ocr_response[2].index = 0
    /\ TotalImages(ocr_response) = 4
    /\ DictLen(recognized.image_bytes_by_name) = 4

----------------------------------------------------------------------------
(* Claims about Provider._save_pdf_data (SpecFresh, SpecSave) *)

RoundTrip(doc, dir) ==
    /\ DocumentTxt \in DOMAIN dir
    /\ dir[DocumentTxt] = TextFile(doc.text)
    /\ \A i \in DOMAIN doc.image_bytes_by_name :
          /\ doc.image_bytes_by_name[i][1] \in DOMAIN dir
          /\ dir[doc.image_bytes_by_name[i][1]] = BytesFile(doc.image_bytes_by_name[i][2])
    /\ MetadataJson \in DOMAIN dir
    /\ dir[MetadataJson][1] = "json"
    /\ JsonLoadDict(dir[MetadataJson][2]) = doc.metadata

RECURSIVE JsonNative(_)
JsonNative(v) ==
    CASE v[1] \in {"int", "str"} -> TRUE
      [] v[1] = "list"           -> \A i \in DOMAIN v[2] : JsonNative(v[2][i])
      [] OTHER                   -> FALSE

\* image names that are single-component file names, JSON-native metadata
FileNamesAndJson(doc) ==
    /\ \A n \in DictKeys(doc.image_bytes_by_name) : IsPlainFileName(n)
    /\ \A i \in DOMAIN doc.metadata : JsonNative(doc.metadata[i][2])

OrdinaryDocument(doc) ==
    /\ FileNamesAndJson(doc)
    /\ \A n \in DictKeys(doc.image_bytes_by_name) : n \notin {DocumentTxt, MetadataJson}

\* C4 as stated: after _save_pdf_data into a fresh directory document.txt
\* holds the text, every image file holds its bytes and metadata.json
\* deserializes to the metadata, for every image that is named by a file
\* name, the names document.txt and metadata.json included.
C4_RoundTrip ==
    (Len(persisted) = 1 /\ FileNamesAndJson(persisted[1])) =>
        RoundTrip(persisted[1], doc_dir)

\* C4 amended: for a document whose image names are single-component file
\* names other than document.txt and metadata.json and whose metadata
\* holds JSON-native values, _save_pdf_data into a fresh directory returns
\* without raising; afterwards document.txt holds the text, every image
\* file holds its bytes, metadata.json deserializes to the metadata, and
\* the directory holds no other file.
C4_RoundTripOrdinaryNames ==
    (Len(persisted) = 1 /\ OrdinaryDocument(persisted[1])) =>
        /\ save_exc = "none"
        /\ RoundTrip(persisted[1], doc_dir)
        /\ DOMAIN doc_dir =
              {DocumentTxt, MetadataJson} \cup DictKeys(persisted[1].image_bytes_by_name)

\* a document with two images and non-empty metadata has been saved
C4_Witness ==
    /\ Len(persisted) = 1 /\ OrdinaryDocument(persisted[1])
    /\ DictLen(persisted[1].image_bytes_by_name) = 2
    /\ persisted[1].metadata # EmptyDict
    /\ Cardinality(DOMAIN doc_dir) = 4

\* C10: persisting A and then B into the same directory leaves exactly
\* document.txt, metadata.json and B's image files; persisting the same
\* document twice leaves what persisting it once leaves.
C10_NoResidue ==
    (/\ Len(persisted) = 2
     /\ OrdinaryDocument(persisted[1])
     /\ OrdinaryDocument(persisted[2])) =>
        /\ DOMAIN doc_dir =
              {DocumentTxt, MetadataJson} \cup DictKeys(persisted[2].image_bytes_by_name)
        /\ (persisted[1] = persisted[2]) =>
              doc_dir = SavePdfData(persisted[1], EmptyDir).dir

----------------------------------------------------------------------------
(* Claims about main.py (SpecMain) *)

\* C9: every key of the images mapping is filesystem-safe (sanitising it
\* changes nothing), every file written is named by a sanitised name, and
\* distinct images end up in distinct files.
C9_ImageKeysSanitized ==
    /\ (xpc \in {"processed", "saved"}) =>
          \A k \in DictKeys(extracted) : SafeName(k) = k
    /\ (xpc = "saved") =>
          /\ \A n \in DOMAIN img_dir : SafeName(n) = n
          /\ Cardinality(DOMAIN img_dir) = DictLen(extracted)

====
